---- MODULE Spec2Model ----
(***************************************************************************)
(* A model of bool_parser/bool_parser.py: eval_expression, that is         *)
(* _tokenize, then _build_ast (with its helpers _get_subexpressions and    *)
(* _match / is_match), then _evaluate_ast.                                 *)
(*                                                                         *)
(* Strings are sequences of one-character strings.  Indices (ptr, the      *)
(* pairs of sub_exps, match_idx, end_idx) are 0-based as in the Python     *)
(* code; PySlice gives Python's slice s[a:b].                              *)
(*                                                                         *)
(* The operator catalog (bool_parser.expressions.models) and the tier      *)
(* list (bool_parser.parser_config.rules) are not part of the sources at   *)
(* hand; they are modelled from the specification's description of them    *)
(* (section "Catalog").                                                    *)
(***************************************************************************)
EXTENDS Integers, Sequences, FiniteSets, TLC

VARIABLES
    catalog,    \* the registered operator symbols and the tier order
    table,      \* symbol_table: identifier name -> value
    input,      \* the text handed to eval_expression
    pc,         \* "start" | "lex" | "build" | "eval" | "done"
    s,          \* _tokenize: the text with blanks removed
    ptr,        \* _tokenize: scan pointer (0-based)
    tokens,     \* _tokenize: tokens emitted so far
    frames,     \* call stack of _build_ast, innermost call last
    ast,        \* what the outermost _build_ast returned (<<x>>), or <<>>
    result,     \* what _evaluate_ast returned (<<v>>), or <<>>
    error,      \* "none" or the exception that ended the call
    reads,      \* number of symbol_table lookups made so far
    lastFold,   \* the last fold of step 2 (<<record>>), or <<>>
    first       \* outcome of the first of two runs (<<record>>), or <<>>

vars == <<catalog, table, input, pc, s, ptr, tokens, frames, ast, result,
          error, reads, lastFold, first>>

(***************************************************************************)
(* Bounds of the model.                                                    *)
(***************************************************************************)
MaxLen == 5
MaxMixLen == 3
MaxLexLen == 4
MaxWsLen == 3
MaxTermLen == 3

(***************************************************************************)
(* Python helpers.                                                         *)
(***************************************************************************)
Max(a, b) == IF a > b THEN a ELSE b
Min(a, b) == IF a < b THEN a ELSE b

\* seq[a:b] with Python's treatment of negative and out-of-range indices
PySlice(seq, a, b) ==
    LET n == Len(seq)
        norm(x) == IF x < 0 THEN Max(x + n, 0) ELSE Min(x, n)
        lo == norm(a)
        hi == norm(b)
    IN  IF lo >= hi THEN <<>> ELSE SubSeq(seq, lo + 1, hi)

RECURSIVE Flatten(_)
Flatten(ss) == IF ss = <<>> THEN <<>> ELSE Head(ss) \o Flatten(Tail(ss))

(***************************************************************************)
(* Catalog: expression variants, their operator symbol, pattern and type.  *)
(***************************************************************************)
RetKey(t) == [kind |-> "ret", name |-> t, sym |-> <<>>]
OpKey(sym) == [kind |-> "op", name |-> "", sym |-> sym]

SymbolOf(v) ==
    CASE v = "Not" -> <<"!">>
      [] v = "And" -> <<"&">>
      [] v = "Or"  -> <<"|">>
      [] v = "Gt"  -> <<">">>
      [] v = "Ge"  -> <<">", "=">>
      [] v = "Ne"  -> <<"!", "=">>
      [] v = "Eq"  -> <<"=", "=">>
      [] v = "Sne" -> <<"!", "=", "=">>

Variants == {"Not", "And", "Or", "Gt", "Ge", "Ne", "Eq", "Sne"}

Expects(v) ==
    CASE v = "Not" -> <<OpKey(SymbolOf(v)), RetKey("BOOLEAN")>>
      [] v \in {"And", "Or"} ->
            <<RetKey("BOOLEAN"), OpKey(SymbolOf(v)), RetKey("BOOLEAN")>>
      [] v \in {"Gt", "Ge", "Ne", "Eq", "Sne"} ->
            <<RetKey("NUMERIC"), OpKey(SymbolOf(v)), RetKey("NUMERIC")>>
      [] OTHER -> <<>>

Tiers == <<{"Not"}, {"Gt", "Ge", "Ne", "Eq", "Sne"}, {"And"}, {"Or"}>>

Catalog(vs) ==
    [classes |-> vs,
     order   |-> [t \in 1..Len(Tiers) |-> Tiers[t] \cap vs]]

BasicCatalog == Catalog({"Not", "And", "Or", "Gt"})
DefaultCatalog == Catalog({"Not", "And", "Or", "Gt", "Ge", "Ne"})
GapCatalog == Catalog({"Not", "And", "Or", "Gt", "Eq", "Sne"})
Catalogs == {BasicCatalog, DefaultCatalog, GapCatalog}

TOKEN_TO_CLASS_keys == {SymbolOf(v) : v \in catalog.classes}
TOKEN_TO_CLASS(sym) == CHOOSE v \in catalog.classes : SymbolOf(v) = sym
order_of_operations == catalog.order

BoolTexts == {<<"T", "r", "u", "e">>, <<"F", "a", "l", "s", "e">>}

(***************************************************************************)
(* Character classes (bool_parser.py, lines 30-40).                        *)
(***************************************************************************)
AsciiLetters ==
    {"A", "B", "C", "T", "F", "a", "e", "l", "r", "s", "u", "x"}
Digits == {"0", "1", "2", "3", "4", "5", "6", "7", "8", "9"}

parantheses == {"(", ")"}
operation_symbols == TOKEN_TO_CLASS_keys
variable_symbols == AsciiLetters \cup Digits \cup {"_", "."}
boolean_literal_symbols == {"T", "r", "u", "e", "F", "a", "l", "s"}
numeric_literal_symbols == Digits \cup {"."}

\* c in language, for a one-character string c: the operator symbols are in
\* the set as whole strings, so c is one of them only if it is a symbol itself
language(c) ==
    \/ c \in parantheses
    \/ c \in boolean_literal_symbols
    \/ <<c>> \in operation_symbols
    \/ c \in variable_symbols

(***************************************************************************)
(* Tokens and expressions.  Every item is [k, v, args]: k is the token     *)
(* kind or, for a built node, the variant; v is the text; args are the     *)
(* operands.                                                               *)
(***************************************************************************)
Item(k, v, args) == [k |-> k, v |-> v, args |-> args]
LeftParanthesis == Item("lp", <<"(">>, <<>>)
RightParanthesis == Item("rp", <<")">>, <<>>)
Operator(sym) == Item("op", sym, <<>>)
BooleanLiteral(text) == Item("bool", text, <<>>)
NumericLiteral(text) == Item("num", text, <<>>)
Identifier(name) == Item("id", name, <<>>)
Node(variant, targets) == Item(variant, <<>>, targets)

IsOperator(x) == x.k = "op"
IsExpression(x) == x.k \notin {"lp", "rp", "op"}

BooleanLiteral_allows(text) == text \in BoolTexts
NumericLiteral_allows(text) ==
    /\ text # <<>>
    /\ \A i \in 1..Len(text) : text[i] \in numeric_literal_symbols
    /\ Cardinality({i \in 1..Len(text) : text[i] = "."}) <= 1
    /\ \E i \in 1..Len(text) : text[i] \in Digits

(***************************************************************************)
(* _tokenize                                                               *)
(***************************************************************************)
\* s.replace(" ", "")
RemoveWhitespace(str) == SelectSeq(str, LAMBDA c : c # " ")

RECURSIVE op_extend(_, _, _)
op_extend(str, p, extend) ==
    IF /\ p + extend + 1 <= Len(str)
       /\ PySlice(str, p, p + extend + 1) \in TOKEN_TO_CLASS_keys
    THEN op_extend(str, p, extend + 1)
    ELSE extend

\* a variant of match_op_symbol that forgets to report the length matched
match_op_symbol_no_advance(str, p) ==
    LET extend == op_extend(str, p, 0)
    IN  [operator |-> Operator(PySlice(str, p, p + extend)), extend |-> 0]

match_op_symbol(str, p) ==
    LET extend == op_extend(str, p, 0)
    IN  [operator |-> Operator(PySlice(str, p, p + extend)), extend |-> extend]

RECURSIVE run_end(_, _, _)
run_end(str, p, allowed) ==
    IF p < Len(str) /\ str[p + 1] \in allowed
    THEN run_end(str, p + 1, allowed)
    ELSE p

match_literal_or_var(str, p, allowed) ==
    LET e == run_end(str, p, allowed)
    IN  [raise |-> e < Len(str) /\ ~language(str[e + 1]),
         start |-> p,
         end   |-> e]

classify(token_str) ==
    IF BooleanLiteral_allows(token_str) THEN BooleanLiteral(token_str)
    ELSE IF NumericLiteral_allows(token_str) THEN NumericLiteral(token_str)
    ELSE Identifier(token_str)

\* a variant of invalid_character that skips the character
skip_character(p) == [raise |-> "none", token |-> <<>>, ptr |-> p + 1]

\* `raise InvalidCharacter`
invalid_character(p) ==
    [raise |-> "InvalidCharacter", token |-> <<>>, ptr |-> p]

\* a variant of literal_or_var that looks an identifier up as it is lexed
literal_or_var_eager(token_str, end_ptr) ==
    IF classify(token_str).k = "id" /\ token_str \notin DOMAIN table
    THEN [raise |-> "KeyError", token |-> <<>>, ptr |-> end_ptr]
    ELSE [raise |-> "none", token |-> <<classify(token_str)>>,
          ptr |-> end_ptr]

\* tokens.append(...) of a literal or an identifier; the symbol table is
\* attached to an Identifier, not consulted
literal_or_var(token_str, end_ptr) ==
    [raise |-> "none", token |-> <<classify(token_str)>>, ptr |-> end_ptr]

\* one iteration of the while loop: [raise, token, ptr]
lex_iteration(str, p) ==
    LET c == str[p + 1]
        allowed_symbols ==
            numeric_literal_symbols \cup boolean_literal_symbols
                \cup variable_symbols
    IN  IF ~language(c)
        THEN invalid_character(p)
        ELSE IF c \in parantheses
        THEN [raise |-> "none",
              token |-> <<IF c = "(" THEN LeftParanthesis
                                     ELSE RightParanthesis>>,
              ptr   |-> p + 1]
        ELSE IF <<c>> \in operation_symbols
        THEN LET m == match_op_symbol(str, p)
             IN  [raise |-> "none", token |-> <<m.operator>>,
                  ptr |-> p + m.extend]
        ELSE LET m == match_literal_or_var(str, p, allowed_symbols)
             IN  IF m.raise
                 THEN invalid_character(p)
                 ELSE literal_or_var(PySlice(str, m.start, m.end), m.end)

(***************************************************************************)
(* State machine: the lexer.                                               *)
(***************************************************************************)
NewFrame(toks) ==
    [tokens |-> toks, phase |-> "scan", sub_exps |-> <<>>, k |-> 1,
     i |-> -2, to_parse |-> <<>>, plan |-> <<>>, tier |-> 1, folds |-> <<>>]

InitWith(Inputs, Tables, Cats) ==
    /\ catalog \in Cats
    /\ table \in Tables
    /\ input \in Inputs
    /\ pc = "start"
    /\ s = <<>>
    /\ ptr = 0
    /\ tokens = <<>>
    /\ frames = <<>>
    /\ ast = <<>>
    /\ result = <<>>
    /\ error = "none"
    /\ reads = 0
    /\ lastFold = <<>>
    /\ first = <<>>

Raise(e) ==
    /\ pc' = "done"
    /\ error' = e

\* tokens = []; s = s.replace(" ", ""); ptr = 0
LexBegin ==
    /\ pc = "start"
    /\ pc' = "lex"
    /\ s' = RemoveWhitespace(input)
    /\ ptr' = 0
    /\ tokens' = <<>>
    /\ UNCHANGED <<catalog, table, input, frames, ast, result, error, reads,
                   lastFold, first>>

\* one iteration of `while ptr < len(s)`
LexStep ==
    /\ pc = "lex"
    /\ ptr < Len(s)
    /\ LET it == lex_iteration(s, ptr)
       IN  IF it.raise # "none"
           THEN /\ Raise(it.raise)
                /\ UNCHANGED <<ptr, tokens>>
           ELSE /\ tokens' = tokens \o it.token
                /\ ptr' = it.ptr
                /\ UNCHANGED <<pc, error>>
    /\ UNCHANGED <<catalog, table, input, s, frames, ast, result, reads,
                   lastFold, first>>

\* return tokens; eval_expression calls _build_ast(tokens, symbol_table)
LexReturn ==
    /\ pc = "lex"
    /\ ptr >= Len(s)
    /\ pc' = "build"
    /\ frames' = <<NewFrame(tokens)>>
    /\ UNCHANGED <<catalog, table, input, s, ptr, tokens, ast, result, error,
                   reads, lastFold, first>>

(***************************************************************************)
(* _build_ast: helper _get_subexpressions                                  *)
(***************************************************************************)
\* a variant of gs_scan without the check for a non-empty stack at the end
RECURSIVE gs_scan_no_final_check(_, _, _, _)
gs_scan_no_final_check(toks, i, stack, sub_exps) ==
    IF i >= Len(toks)
    THEN [raise |-> "none", sub_exps |-> sub_exps]
    ELSE IF toks[i + 1] = LeftParanthesis
    THEN gs_scan_no_final_check(toks, i + 1, Append(stack, i), sub_exps)
    ELSE IF toks[i + 1] = RightParanthesis
    THEN IF stack = <<>>
         THEN [raise |-> "MissingLeftParanthesis", sub_exps |-> <<>>]
         ELSE LET start_idx == stack[Len(stack)]
                  popped == SubSeq(stack, 1, Len(stack) - 1)
              IN  gs_scan_no_final_check(toks, i + 1, popped,
                          IF Len(popped) = 0
                          THEN Append(sub_exps, <<start_idx, i>>)
                          ELSE sub_exps)
    ELSE gs_scan_no_final_check(toks, i + 1, stack, sub_exps)

\* a variant of gs_scan that records every group, not only the outermost
RECURSIVE gs_scan_every_group(_, _, _, _)
gs_scan_every_group(toks, i, stack, sub_exps) ==
    IF i >= Len(toks)
    THEN IF Len(stack) # 0
         THEN [raise |-> "MissingRightParanthesis", sub_exps |-> <<>>]
         ELSE [raise |-> "none", sub_exps |-> sub_exps]
    ELSE IF toks[i + 1] = LeftParanthesis
    THEN gs_scan_every_group(toks, i + 1, Append(stack, i), sub_exps)
    ELSE IF toks[i + 1] = RightParanthesis
    THEN IF stack = <<>>
         THEN [raise |-> "MissingLeftParanthesis", sub_exps |-> <<>>]
         ELSE gs_scan_every_group(toks, i + 1,
                                  SubSeq(stack, 1, Len(stack) - 1),
                                  Append(sub_exps, <<stack[Len(stack)], i>>))
    ELSE gs_scan_every_group(toks, i + 1, stack, sub_exps)

RECURSIVE gs_scan(_, _, _, _)
gs_scan(toks, i, stack, sub_exps) ==
    IF i >= Len(toks)
    THEN IF Len(stack) # 0
         THEN [raise |-> "MissingRightParanthesis", sub_exps |-> <<>>]
         ELSE [raise |-> "none", sub_exps |-> sub_exps]
    ELSE IF toks[i + 1] = LeftParanthesis
    THEN gs_scan(toks, i + 1, Append(stack, i), sub_exps)
    ELSE IF toks[i + 1] = RightParanthesis
    THEN IF stack = <<>>
         THEN [raise |-> "MissingLeftParanthesis", sub_exps |-> <<>>]
         ELSE LET start_idx == stack[Len(stack)]
                  popped == SubSeq(stack, 1, Len(stack) - 1)
              IN  gs_scan(toks, i + 1, popped,
                          IF Len(popped) = 0
                          THEN Append(sub_exps, <<start_idx, i>>)
                          ELSE sub_exps)
    ELSE gs_scan(toks, i + 1, stack, sub_exps)

get_subexpressions(toks) == gs_scan(toks, 0, <<>>, <<>>)

(***************************************************************************)
(* _build_ast: helper _match, with _build_trie and is_match.  A trie node  *)
(* is named by the path of keys leading to it.                             *)
(***************************************************************************)
Returns(x) ==
    CASE x.k = "bool" -> "BOOLEAN"
      [] x.k = "num"  -> "NUMERIC"
      [] x.k = "id"   -> "ANY"
      [] OTHER        -> "BOOLEAN"

trie_children(to_match, path) ==
    {Expects(v)[Len(path) + 1] :
        v \in {w \in to_match : /\ Len(Expects(w)) > Len(path)
                                /\ SubSeq(Expects(w), 1, Len(path)) = path}}

trie_is_end(to_match, path) == \E v \in to_match : Expects(v) = path

\* the children of a node that cur_item's item_matcher selects
matching_children(cur_item, children) ==
    IF IsExpression(cur_item)
    THEN IF Returns(cur_item) = "ANY"
         THEN {c \in children : c.kind = "ret"}
         ELSE {c \in children : c = RetKey(Returns(cur_item))}
    ELSE {c \in children : IsOperator(cur_item) /\ c = OpKey(cur_item.v)}

NoMatch(what) ==
    [result |-> what, targets |-> <<>>, expr_type |-> "", path |-> <<>>,
     cur_idx |-> 0]

RECURSIVE walk(_, _, _, _, _, _)
walk(to_parse, to_match, cur_idx, path, targets, expr_type) ==
    IF trie_is_end(to_match, path)
    THEN IF expr_type = ""
         THEN NoMatch("MatchError")
         ELSE [result |-> "match", targets |-> targets,
               expr_type |-> expr_type, path |-> path, cur_idx |-> cur_idx]
    ELSE IF cur_idx >= Len(to_parse)
    THEN NoMatch("nomatch")
    ELSE LET cur_item == to_parse[cur_idx + 1]
             next == matching_children(cur_item,
                                       trie_children(to_match, path))
         IN  IF next = {}
             THEN NoMatch("nomatch")
             ELSE walk(to_parse, to_match, cur_idx + 1,
                       Append(path, CHOOSE c \in next : TRUE),
                       IF IsOperator(cur_item) THEN targets
                                               ELSE Append(targets, cur_item),
                       IF IsOperator(cur_item) THEN TOKEN_TO_CLASS(cur_item.v)
                                               ELSE expr_type)

is_match(to_parse, cur_idx, to_match) ==
    walk(to_parse, to_match, cur_idx, <<>>, <<>>, "")

end_of_match(i, expr_type) == i + Len(Expects(expr_type))

RECURSIVE match_from(_, _, _)
match_from(to_parse, to_match, i) ==
    IF i >= Len(to_parse)
    THEN [matched |-> FALSE, raise |-> "none", match_idx |-> 0,
          end_idx |-> 0, expr |-> <<>>, walked |-> 0, path |-> <<>>]
    ELSE LET r == is_match(to_parse, i, to_match)
         IN  IF r.result = "MatchError"
             THEN [matched |-> FALSE, raise |-> "MatchError", match_idx |-> 0,
                   end_idx |-> 0, expr |-> <<>>, walked |-> 0, path |-> <<>>]
             ELSE IF r.result = "match"
             THEN [matched |-> TRUE, raise |-> "none", match_idx |-> i,
                   end_idx |-> end_of_match(i, r.expr_type),
                   expr |-> <<Node(r.expr_type, r.targets)>>,
                   walked |-> r.cur_idx - i, path |-> r.path]
             ELSE match_from(to_parse, to_match, i + 1)

match(to_parse, to_match) == match_from(to_parse, to_match, 0)

\* a variant of fold that cuts one element too many
fold_one_more(to_parse, match_idx, end_idx, expr) ==
    PySlice(to_parse, 0, match_idx) \o <<expr>>
        \o PySlice(to_parse, end_idx + 1, Len(to_parse))

\* to_parse[:match_idx] + [expr] + to_parse[end_idx:]
fold(to_parse, match_idx, end_idx, expr) ==
    PySlice(to_parse, 0, match_idx) \o <<expr>>
        \o PySlice(to_parse, end_idx, Len(to_parse))

\* a variant of to_match_of that walks the tiers from the last to the first
to_match_of_reversed(tier) ==
    order_of_operations[Len(order_of_operations) - tier + 1]

\* `for expressions in rules.order_of_operations`: the tier's candidates
to_match_of(tier) == order_of_operations[tier]

TierOf(v) == CHOOSE t \in 1..Len(Tiers) : v \in Tiers[t]

(***************************************************************************)
(* _evaluate_ast: operation() of each variant.                             *)
(***************************************************************************)
BoolVal(b) == [t |-> "bool", b |-> b, n |-> 0]
NumVal(n) == [t |-> "num", b |-> FALSE, n |-> n]
Truthy(v) == IF v.t = "bool" THEN v.b ELSE v.n # 0
AsNumber(v) == IF v.t = "num" THEN v.n ELSE IF v.b THEN 1 ELSE 0

DigitValue(c) ==
    CASE c = "0" -> 0 [] c = "1" -> 1 [] c = "2" -> 2 [] c = "3" -> 3
      [] c = "4" -> 4 [] c = "5" -> 5 [] c = "6" -> 6 [] c = "7" -> 7
      [] c = "8" -> 8 [] c = "9" -> 9

RECURSIVE ParseNumber(_)
ParseNumber(text) ==
    IF text = <<>> THEN 0
    ELSE 10 * ParseNumber(SubSeq(text, 1, Len(text) - 1))
            + DigitValue(text[Len(text)])

Apply(variant, vals) ==
    CASE variant = "Not" -> BoolVal(~Truthy(vals[1]))
      [] variant = "And" -> BoolVal(Truthy(vals[1]) /\ Truthy(vals[2]))
      [] variant = "Or"  -> BoolVal(Truthy(vals[1]) \/ Truthy(vals[2]))
      [] variant = "Gt"  -> BoolVal(AsNumber(vals[1]) > AsNumber(vals[2]))
      [] variant = "Ge"  -> BoolVal(AsNumber(vals[1]) >= AsNumber(vals[2]))
      [] variant \in {"Ne", "Sne"} ->
            BoolVal(AsNumber(vals[1]) # AsNumber(vals[2]))
      [] variant = "Eq"  -> BoolVal(AsNumber(vals[1]) = AsNumber(vals[2]))

Evaluated(raise, vals, n) == [raise |-> raise, vals |-> vals, reads |-> n]

RECURSIVE operation(_, _)
operation(x, tbl) ==
    CASE x.k = "bool" ->
            Evaluated("none", <<BoolVal(x.v = <<"T", "r", "u", "e">>)>>, 0)
      [] x.k = "num" -> Evaluated("none", <<NumVal(ParseNumber(x.v))>>, 0)
      [] x.k = "id" ->
            IF x.v \in DOMAIN tbl
            THEN Evaluated("none", <<tbl[x.v]>>, 1)
            ELSE Evaluated("KeyError", <<>>, 1)
      [] OTHER ->
            LET a == operation(x.args[1], tbl)
            IN  IF a.raise # "none" THEN a
                ELSE IF Len(x.args) = 1
                THEN Evaluated("none", <<Apply(x.k, a.vals)>>, a.reads)
                ELSE LET b == operation(x.args[2], tbl)
                     IN  IF b.raise # "none"
                         THEN Evaluated(b.raise, <<>>, a.reads + b.reads)
                         ELSE Evaluated("none",
                                        <<Apply(x.k, a.vals \o b.vals)>>,
                                        a.reads + b.reads)

(***************************************************************************)
(* State machine: _build_ast and _evaluate_ast.                            *)
(***************************************************************************)
Top == frames[Len(frames)]
SetTop(f) == [frames EXCEPT ![Len(frames)] = f]

\* the loop `for sub_exp in sub_exps` moves on to its next element
next_sub_exp(f, sub_exp) ==
    [f EXCEPT !.i = sub_exp[2] + 1,
              !.k = f.k + 1,
              !.phase = IF f.k + 1 > Len(f.sub_exps) THEN "fold" ELSE "splice"]

TokenMarks(n, a, b) ==
    LET lo == IF a < 0 THEN Max(a + n, 0) ELSE Min(a, n)
        hi == IF b < 0 THEN Max(b + n, 0) ELSE Min(b, n)
    IN  IF lo >= hi THEN <<>>
        ELSE [j \in 1..(hi - lo) |-> [g |-> FALSE, a |-> lo + j - 1,
                                      b |-> lo + j - 1]]

\* sub_exps = [(-2, -1)] + _get_subexpressions(tokens) + [(len, len + 1)]
GetSub ==
    /\ pc = "build"
    /\ Top.phase = "scan"
    /\ LET r == get_subexpressions(Top.tokens)
           n == Len(Top.tokens)
       IN  IF r.raise # "none"
           THEN /\ Raise(r.raise)
                /\ UNCHANGED frames
           ELSE /\ frames' = SetTop([Top EXCEPT
                        !.sub_exps = <<<<-2, -1>>>> \o r.sub_exps
                                        \o <<<<n, n + 1>>>>,
                        !.phase = "splice"])
                /\ UNCHANGED <<pc, error>>
    /\ UNCHANGED <<catalog, table, input, s, ptr, tokens, ast, result, reads,
                   lastFold, first>>

\* step 1, one iteration of `for sub_exp in sub_exps`
SpliceStep ==
    /\ pc = "build"
    /\ Top.phase = "splice"
    /\ LET f == Top
           sub_exp == f.sub_exps[f.k]
           sublist == PySlice(f.tokens, sub_exp[1] + 1, sub_exp[2])
           copied == [f EXCEPT
                        !.to_parse = @ \o PySlice(f.tokens, f.i, sub_exp[1]),
                        !.plan = @ \o TokenMarks(Len(f.tokens), f.i,
                                                 sub_exp[1])]
       IN  IF sublist # <<>>
           THEN frames' = Append(SetTop([copied EXCEPT !.phase = "wait"]),
                                 NewFrame(sublist))
           ELSE frames' = SetTop(next_sub_exp(copied, sub_exp))
    /\ UNCHANGED <<catalog, table, input, pc, s, ptr, tokens, ast, result,
                   error, reads, lastFold, first>>

\* step 2, the body of `while matched`
Fold ==
    /\ pc = "build"
    /\ Top.phase = "fold"
    /\ Top.tier <= Len(order_of_operations)
    /\ LET f == Top
           m == match(f.to_parse, to_match_of(f.tier))
           after == fold(f.to_parse, m.match_idx, m.end_idx, m.expr[1])
       IN  /\ m.matched
           /\ frames' = SetTop([f EXCEPT
                            !.to_parse = after,
                            !.folds = Append(@, TierOf(m.expr[1].k))])
           /\ lastFold' = <<[before |-> f.to_parse, after |-> after,
                             start |-> m.match_idx, walked |-> m.walked,
                             path |-> m.path, node |-> m.expr[1]]>>
    /\ UNCHANGED <<catalog, table, input, pc, s, ptr, tokens, ast, result,
                   error, reads, first>>

\* step 2, _match finds nothing (or raises): on to the next tier
NextTier ==
    /\ pc = "build"
    /\ Top.phase = "fold"
    /\ Top.tier <= Len(order_of_operations)
    /\ LET m == match(Top.to_parse, to_match_of(Top.tier))
       IN  /\ ~m.matched
           /\ IF m.raise # "none"
              THEN /\ Raise(m.raise)
                   /\ UNCHANGED frames
              ELSE /\ frames' = SetTop([Top EXCEPT !.tier = @ + 1])
                   /\ UNCHANGED <<pc, error>>
    /\ UNCHANGED <<catalog, table, input, s, ptr, tokens, ast, result, reads,
                   lastFold, first>>

\* the final check and `return to_parse[0]`, to the caller's step 1 or to
\* eval_expression
Return ==
    /\ pc = "build"
    /\ Top.phase = "fold"
    /\ Top.tier > Len(order_of_operations)
    /\ LET f == Top
       IN  IF Len(f.to_parse) # 1 \/ ~IsExpression(f.to_parse[1])
           THEN /\ Raise("InvalidExpression")
                /\ UNCHANGED <<frames, ast>>
           ELSE IF Len(frames) = 1
           THEN /\ ast' = <<f.to_parse[1]>>
                /\ pc' = "eval"
                /\ frames' = <<>>
                /\ UNCHANGED error
           ELSE LET caller == frames[Len(frames) - 1]
                    sub_exp == caller.sub_exps[caller.k]
                    resumed == [caller EXCEPT
                        !.to_parse = Append(@, f.to_parse[1]),
                        !.plan = Append(@, [g |-> TRUE, a |-> sub_exp[1],
                                            b |-> sub_exp[2]])]
                IN  /\ frames' = Append(SubSeq(frames, 1, Len(frames) - 2),
                                        next_sub_exp(resumed, sub_exp))
                    /\ UNCHANGED <<pc, error, ast>>
    /\ UNCHANGED <<catalog, table, input, s, ptr, tokens, result, reads,
                   lastFold, first>>

\* return _ast.operation()
Evaluate ==
    /\ pc = "eval"
    /\ LET r == operation(ast[1], table)
       IN  /\ reads' = reads + r.reads
           /\ result' = r.vals
           /\ error' = r.raise
    /\ pc' = "done"
    /\ UNCHANGED <<catalog, table, input, s, ptr, tokens, frames, ast,
                   lastFold, first>>

(***************************************************************************)
(* Inputs.                                                                 *)
(***************************************************************************)
Texts(Pieces, n) ==
    UNION {{Flatten(f) : f \in [1..m -> Pieces]} : m \in 0..n}

LexPieces ==
    {<<"(">>, <<"!">>, <<">">>, <<"=">>, <<"A">>, <<"1">>, <<" ">>, <<"#">>,
     <<"T", "r", "u", "e">>}

NoTable == <<>>

InitLex == InitWith(Texts(LexPieces, MaxLexLen), {NoTable}, Catalogs)
NextLex == LexBegin \/ LexStep \/ LexReturn
SpecLex == InitLex /\ [][NextLex]_vars

Name(c) == <<c>>
Table1 == (Name("A") :> BoolVal(TRUE)) @@ (Name("B") :> BoolVal(FALSE))
            @@ (Name("C") :> BoolVal(TRUE))
Table2 == (Name("A") :> BoolVal(TRUE))
Table3 == (Name("A") :> NumVal(5)) @@ (Name("B") :> NumVal(2))
            @@ (Name("x") :> NumVal(5))
Tables == {Table1, Table2, Table3}

Pieces == {<<"(">>, <<")">>, <<"!">>, <<"&">>, <<"|">>, <<"A">>}

MixPieces ==
    {<<"(">>, <<")">>, <<"!">>, <<">">>, <<"&">>, <<"|">>, <<"A">>, <<"B">>,
     <<"1">>}

\* the inputs of the specification's examples
Examples ==
    {<<"A", "&", "B", "|", "C">>, <<"A", "|", "B", "&", "C">>,
     <<"C", "|", "B", "&", "A">>, <<"A", "|", "B", "&", "B">>,
     <<" ", "A", " ", "&", " ", "B", " ">>, <<"(", "A", "&", "B">>,
     <<"A", "&", "B", ")">>, <<"!", "A">>, <<"x", ">", "3">>,
     <<"A", "#", "B">>, <<"(", "(", "A", ")", "|", "B", ")", "&", "C">>,
     <<"(", "A", ")", "(", ")", "(", "B", ")">>,
     <<"(", "A", ")", "(", ")", "&", "(", "B", ")">>,
     <<"T", "r", "u", "e", "&", "!", "F", "a", "l", "s", "e">>}

Init ==
    \/ InitWith(Texts(Pieces, MaxLen), {Table1}, {DefaultCatalog})
    \/ InitWith(Texts(MixPieces, MaxMixLen), {Table2, Table3},
                {DefaultCatalog})
    \/ InitWith(Examples, Tables, {DefaultCatalog})
Next ==
    \/ LexBegin \/ LexStep \/ LexReturn
    \/ GetSub \/ SpliceStep \/ Fold \/ NextTier \/ Return
    \/ Evaluate
Spec == Init /\ [][Next]_vars

\* runs to completion: every step of Next is a step of the one thread of
\* control, which is never suspended
InitTerm ==
    \/ InitWith(Texts(Pieces, MaxTermLen), {Table1}, {DefaultCatalog})
    \/ InitWith(Examples, {Table1, Table2}, {DefaultCatalog})
FairSpec == InitTerm /\ [][Next]_vars /\ WF_vars(Next)

(***************************************************************************)
(* Two runs, the second on the text without its whitespace.                *)
(***************************************************************************)
Whitespace == {" ", "\t"}
WithoutWhitespace(str) == SelectSeq(str, LAMBDA c : c \notin Whitespace)
Outcome == [error |-> error, result |-> result]

Restart ==
    /\ pc = "done"
    /\ first = <<>>
    /\ first' = <<Outcome>>
    /\ input' = WithoutWhitespace(input)
    /\ pc' = "start"
    /\ s' = <<>>
    /\ ptr' = 0
    /\ tokens' = <<>>
    /\ frames' = <<>>
    /\ ast' = <<>>
    /\ result' = <<>>
    /\ error' = "none"
    /\ reads' = 0
    /\ lastFold' = <<>>
    /\ UNCHANGED <<catalog, table>>

WsPieces == {<<" ">>, <<"\t">>, <<"A">>, <<"&">>, <<"(">>, <<")">>}
InitWs == InitWith(Texts(WsPieces, MaxWsLen), {Table1}, {DefaultCatalog})
NextWs == Next \/ Restart
SpecWs == InitWs /\ [][NextWs]_vars

(***************************************************************************)
(* Notions the properties below are stated with.  They are defined on the  *)
(* token sequence alone, by counting, not by the scan of the code.         *)
(***************************************************************************)
ParenErrors == {"MissingLeftParanthesis", "MissingRightParanthesis"}

\* left parentheses minus right parentheses among the first n tokens
RECURSIVE Excess(_, _)
Excess(toks, n) ==
    IF n = 0 THEN 0
    ELSE Excess(toks, n - 1)
            + (IF toks[n].k = "lp" THEN 1
               ELSE IF toks[n].k = "rp" THEN -1 ELSE 0)

RightBeforeLeft(toks) == \E n \in 1..Len(toks) : Excess(toks, n) < 0
LeftUnclosed(toks) == ~RightBeforeLeft(toks) /\ Excess(toks, Len(toks)) > 0
Balanced(toks) == ~RightBeforeLeft(toks) /\ Excess(toks, Len(toks)) = 0

\* the outermost groups, as pairs of 0-based positions of their parentheses
OutermostGroups(toks) ==
    {g \in (0..Len(toks) - 1) \X (0..Len(toks) - 1) :
        /\ g[1] < g[2]
        /\ toks[g[1] + 1].k = "lp"
        /\ toks[g[2] + 1].k = "rp"
        /\ Excess(toks, g[1]) = 0
        /\ Excess(toks, g[2] + 1) = 0
        /\ \A j \in (g[1] + 1)..g[2] : Excess(toks, j) > 0}

\* the 0-based positions of the tokens outside every group
OutsidePositions(toks) ==
    {j \in 0..Len(toks) - 1 :
        toks[j + 1].k \notin {"lp", "rp"} /\ Excess(toks, j) = 0}

\* the operator symbols and "x" for every operand, in order
Shape(toks) ==
    [j \in 1..Len(toks) |-> IF IsExpression(toks[j]) THEN <<"x">>
                            ELSE toks[j].v]

TopScanDone ==
    \/ pc = "build" /\ (Len(frames) > 1 \/ frames[1].phase # "scan")
    \/ pc = "eval"
    \/ pc = "done" /\ error # "InvalidCharacter"

LexFinished == pc \in {"build", "done"}

\* the alphabet as the claim C4 reads it, and as the code tests it
ClaimAlphabet(c) ==
    \/ c \in parantheses
    \/ \E sym \in TOKEN_TO_CLASS_keys : \E j \in 1..Len(sym) : sym[j] = c
    \/ c \in AsciiLetters \cup Digits \cup {"_", "."}
SingleCharAlphabet(c) ==
    \/ c \in parantheses
    \/ <<c>> \in TOKEN_TO_CLASS_keys
    \/ c \in AsciiLetters \cup Digits \cup {"_", "."}

\* the registered symbols that are a prefix of str from position p on
PrefixSymbols(str, p) ==
    {sym \in TOKEN_TO_CLASS_keys :
        /\ p + Len(sym) <= Len(str)
        /\ SubSeq(str, p + 1, p + Len(sym)) = sym}
LongestSymbol(str, p) ==
    CHOOSE sym \in PrefixSymbols(str, p) :
        \A other \in PrefixSymbols(str, p) : Len(other) <= Len(sym)

(***************************************************************************)
(* C1: whenever eval_expression returns (no error), the value is a         *)
(* boolean, and a root that is a literal or a built node has return type   *)
(* boolean.  The code returns the number 1 for the input "1".              *)
(***************************************************************************)
C1_ReturnsBoolean ==
    (pc = "done" /\ error = "none") =>
        /\ result[1].t = "bool"
        /\ ast[1].k # "id" => Returns(ast[1]) = "BOOLEAN"

(***************************************************************************)
(* C2: the outcome (value or error) of a text equals the outcome of the    *)
(* same text with its whitespace (blanks and tabs) removed.  The code      *)
(* removes blanks only: a tab raises InvalidCharacter.                     *)
(***************************************************************************)
C2_WhitespaceInvariant ==
    (pc = "done" /\ first # <<>>) => Outcome = first[1]

(***************************************************************************)
(* C3: once the outermost scan for groups is over, a right parenthesis     *)
(* with no left one open has raised MissingLeftParanthesis, otherwise a    *)
(* left one left open has raised MissingRightParanthesis, and a balanced   *)
(* sequence has raised neither; either error leaves the outermost call     *)
(* where it was before step 1: nothing spliced, nothing folded, no         *)
(* recursive call made.                                                    *)
(***************************************************************************)
C3_ParenthesisErrors ==
    /\ TopScanDone =>
        /\ RightBeforeLeft(tokens) => error = "MissingLeftParanthesis"
        /\ LeftUnclosed(tokens) => error = "MissingRightParanthesis"
        /\ Balanced(tokens) => error \notin ParenErrors
    /\ error \in ParenErrors =>
        /\ Len(frames) = 1
        /\ frames[1].phase = "scan"
        /\ frames[1].to_parse = <<>>
        /\ frames[1].folds = <<>>
        /\ lastFold = <<>>

C3_Witness ==
    /\ pc = "done"
    /\ error = "MissingRightParanthesis"
    /\ \E n \in 1..Len(tokens) : tokens[n].k = "rp"

(***************************************************************************)
(* C4 as claimed: the lexer raises InvalidCharacter exactly when the text  *)
(* (blanks removed) holds a character outside parentheses, characters of   *)
(* operator symbols, letters, digits, "_" and ".".  With "!=" registered   *)
(* and "=" not, the text "=" raises although "=" is such a character.      *)
(***************************************************************************)
C4_Original ==
    LexFinished =>
        /\ (\E j \in 1..Len(s) : ~ClaimAlphabet(s[j])) =>
                error = "InvalidCharacter" /\ frames = <<>>
        /\ (\A j \in 1..Len(s) : ClaimAlphabet(s[j])) =>
                error # "InvalidCharacter"

(***************************************************************************)
(* C4 as amended: a character outside that alphabet raises                 *)
(* InvalidCharacter and no token sequence is returned; a text made only    *)
(* of parentheses, registered one-character operator symbols, letters,     *)
(* digits, "_" and "." never raises it.                                    *)
(***************************************************************************)
C4_InvalidCharacter ==
    LexFinished =>
        /\ (\E j \in 1..Len(s) : ~ClaimAlphabet(s[j])) =>
                error = "InvalidCharacter" /\ frames = <<>>
        /\ (\A j \in 1..Len(s) : SingleCharAlphabet(s[j])) =>
                error # "InvalidCharacter"

C4_Witness ==
    /\ pc = "done"
    /\ error = "InvalidCharacter"
    /\ Len(tokens) >= 2
    /\ \E j \in 1..Len(s) : ~ClaimAlphabet(s[j])

(***************************************************************************)
(* C5: within one call of _build_ast the tiers of the variants folded      *)
(* never decrease; "x&x|x" and "x|x&x" build an Or node whose And operand  *)
(* is the left, resp. the right, one; "A&B|C" is true and "A|B&B" is true  *)
(* under {A: true, B: false, C: true}.                                     *)
(***************************************************************************)
C5_TierOrder ==
    /\ \A d \in 1..Len(frames) :
        \A j \in 1..Len(frames[d].folds) - 1 :
            frames[d].folds[j] <= frames[d].folds[j + 1]
    /\ (ast # <<>> /\ Shape(tokens) = <<<<"x">>, <<"&">>, <<"x">>, <<"|">>,
                                         <<"x">>>>) =>
            /\ ast[1].k = "Or"
            /\ ast[1].args[1].k = "And"
            /\ ast[1].args[1].args = <<tokens[1], tokens[3]>>
            /\ ast[1].args[2] = tokens[5]
    /\ (ast # <<>> /\ Shape(tokens) = <<<<"x">>, <<"|">>, <<"x">>, <<"&">>,
                                         <<"x">>>>) =>
            /\ ast[1].k = "Or"
            /\ ast[1].args[1] = tokens[1]
            /\ ast[1].args[2].k = "And"
            /\ ast[1].args[2].args = <<tokens[3], tokens[5]>>
    /\ (pc = "done" /\ table = Table1
            /\ input \in {<<"A", "&", "B", "|", "C">>,
                          <<"A", "|", "B", "&", "B">>}) =>
            error = "none" /\ result = <<BoolVal(TRUE)>>

C5_Witness ==
    /\ pc = "done"
    /\ table = Table1
    /\ input = <<"A", "&", "B", "|", "C">>
    /\ result = <<BoolVal(TRUE)>>
    /\ lastFold # <<>>
    /\ lastFold[1].node.k = "Or"

(***************************************************************************)
(* C6: no lookup in the symbol table is made before _build_ast has         *)
(* returned, and a lookup that fails (KeyError) fails in _evaluate_ast,    *)
(* on an AST that was built.                                               *)
(***************************************************************************)
C6_LazyBinding ==
    /\ pc \in {"start", "lex", "build"} => reads = 0
    /\ reads > 0 => ast # <<>>
    /\ error = "KeyError" => ast # <<>> /\ reads > 0 /\ result = <<>>

C6_Witness ==
    /\ pc = "done"
    /\ error = "KeyError"
    /\ input = <<"A", "&", "B">>
    /\ <<"B">> \notin DOMAIN table
    /\ ast = <<Node("And", <<Identifier(<<"A">>), Identifier(<<"B">>)>>)>>

(***************************************************************************)
(* C7: at a position where some registered symbol is a prefix of the rest  *)
(* of the text, the lexer appends the longest such symbol and advances by  *)
(* its length.  With "!" and "!==" registered and "!=" not, the code       *)
(* appends "!" for "!==".                                                  *)
(***************************************************************************)
C7_MaximalMunch ==
    [][(pc = "lex" /\ ptr < Len(s) /\ PrefixSymbols(s, ptr) # {}) =>
            /\ tokens' = Append(tokens, Operator(LongestSymbol(s, ptr)))
            /\ ptr' = ptr + Len(LongestSymbol(s, ptr))]_vars

(***************************************************************************)
(* C8: a fold at index i replaces exactly the elements the trie walk       *)
(* consumed from i on by the new node; the node's operands are the         *)
(* non-operator elements of that run in order, and its variant is the one  *)
(* whose pattern was walked; all other elements stay where they were.      *)
(***************************************************************************)
C8_FoldReplacesSpan ==
    lastFold # <<>> =>
        LET L == lastFold[1]
            run == SubSeq(L.before, L.start + 1, L.start + L.walked)
        IN  /\ L.walked >= 1
            /\ L.start + L.walked <= Len(L.before)
            /\ L.after = SubSeq(L.before, 1, L.start) \o <<L.node>>
                    \o SubSeq(L.before, L.start + L.walked + 1,
                              Len(L.before))
            /\ L.node.args = SelectSeq(run, LAMBDA x : ~IsOperator(x))
            /\ Expects(L.node.k) = L.path
            /\ Len(L.path) = L.walked
            /\ \A j \in 1..L.walked :
                IF IsOperator(run[j])
                THEN L.path[j] = OpKey(run[j].v)
                ELSE /\ IsExpression(run[j])
                     /\ L.path[j].kind = "ret"
                     /\ Returns(run[j]) \in {L.path[j].name, "ANY"}
            /\ (pc = "build" /\ Top.phase = "fold" /\ Top.folds # <<>>) =>
                    Len(Top.to_parse) <= Len(L.after)

C8_Witness ==
    /\ lastFold # <<>>
    /\ lastFold[1].start > 0
    /\ lastFold[1].walked = 3
    /\ lastFold[1].start + 3 < Len(lastFold[1].before)

(***************************************************************************)
(* C9: what step 1 of a call of _build_ast has built, and the calls it     *)
(* makes.  Groups names the groups that are to be replaced by one          *)
(* Expression each.                                                        *)
(***************************************************************************)
Step1Done(f) == f.phase = "fold" /\ f.tier = 1 /\ f.folds = <<>>

Step1Result(f, Groups) ==
    LET n == Len(f.plan)
    IN  /\ n = Len(f.to_parse)
        /\ \A j \in 1..n : f.to_parse[j].k \notin {"lp", "rp"}
        /\ \A j \in 1..n - 1 : f.plan[j].b < f.plan[j + 1].a
        /\ {f.plan[j].a : j \in {i \in 1..n : ~f.plan[i].g}}
                = OutsidePositions(f.tokens)
        /\ \A j \in 1..n :
                ~f.plan[j].g => f.to_parse[j] = f.tokens[f.plan[j].a + 1]
        /\ {<<f.plan[j].a, f.plan[j].b>> : j \in {i \in 1..n : f.plan[i].g}}
                = Groups
        /\ \A j \in 1..n : f.plan[j].g => IsExpression(f.to_parse[j])

Recursion(d) ==
    /\ frames[d].phase # "scan" =>
        /\ Balanced(frames[d].tokens)
        /\ {frames[d].sub_exps[j] : j \in 2..Len(frames[d].sub_exps) - 1}
                = OutermostGroups(frames[d].tokens)
    /\ d >= 2 =>
        LET caller == frames[d - 1]
            g == caller.sub_exps[caller.k]
        IN  /\ caller.phase = "wait"
            /\ g \in OutermostGroups(caller.tokens)
            /\ frames[d].tokens = SubSeq(caller.tokens, g[1] + 2, g[2])
            /\ Balanced(frames[d].tokens)

(***************************************************************************)
(* C9 as claimed: for a balanced token sequence the working sequence of    *)
(* step 1 holds no parenthesis, every token outside the groups once and    *)
(* in order, and exactly one Expression in place of each outermost group;  *)
(* only outermost groups are recorded, and recursive calls get balanced    *)
(* sequences.  The group "()" is replaced by nothing.                      *)
(***************************************************************************)
C9_Original ==
    pc = "build" =>
        \A d \in 1..Len(frames) :
            /\ Step1Done(frames[d]) =>
                Step1Result(frames[d], OutermostGroups(frames[d].tokens))
            /\ Recursion(d)

(***************************************************************************)
(* C9 as amended: the same, with one Expression in place of each           *)
(* outermost group whose interior is not empty, and nothing in place of    *)
(* an outermost group whose interior is empty.                             *)
(***************************************************************************)
C9_Step1 ==
    pc = "build" =>
        \A d \in 1..Len(frames) :
            /\ Step1Done(frames[d]) =>
                Step1Result(frames[d],
                            {g \in OutermostGroups(frames[d].tokens) :
                                g[2] > g[1] + 1})
            /\ Recursion(d)

C9_Witness ==
    /\ pc = "build"
    /\ Len(frames) = 1
    /\ Step1Done(frames[1])
    /\ \E j \in 1..Len(frames[1].plan) : frames[1].plan[j].g
    /\ \E j \in 1..Len(frames[1].plan) : ~frames[1].plan[j].g
    /\ \E g \in OutermostGroups(frames[1].tokens) : g[2] = g[1] + 1

(***************************************************************************)
(* C10: every call ends, with a value or an error; on the way every        *)
(* iteration of the lexer loop moves ptr forward, every recursive call     *)
(* gets fewer tokens than its caller has, and every fold shortens the      *)
(* working sequence.                                                       *)
(***************************************************************************)
C10_Terminates ==
    /\ [][/\ (pc = "lex" /\ pc' = "lex") => ptr' > ptr
          /\ (pc = "build" /\ pc' = "build" /\ Len(frames') > Len(frames)) =>
                Len(frames'[Len(frames')].tokens) < Len(Top.tokens)
          /\ (pc = "build" /\ lastFold' # <<>> /\ lastFold' # lastFold) =>
                Len(lastFold'[1].after) < Len(lastFold'[1].before)
          /\ (pc = "build" /\ pc' = "build" /\ Len(frames') = Len(frames)
                /\ Top'.phase = "fold" /\ Top.phase = "fold"
                /\ Top'.tier = Top.tier) =>
                Len(Top'.to_parse) < Len(Top.to_parse)]_vars
    /\ <>(pc = "done")

C10_Witness ==
    /\ pc = "done"
    /\ error = "none"
    /\ result # <<>>
    /\ Len(tokens) >= 5
    /\ \E n \in 1..Len(tokens) : tokens[n].k = "lp"
    /\ lastFold # <<>>

====
